---- MODULE Spec2Model ----
(***************************************************************************)
(* Model of backend/server.py of konak-bul: the /api/parse endpoint        *)
(* (AIService.parse_query), the /api/search endpoint (WebSearchService,    *)
(* FallbackDataService, search_accommodations) and the startup seeding of  *)
(* the accommodations collection (startup_db).                             *)
(*                                                                         *)
(* Representation.  A Python str is a sequence of tokens (words), so ""    *)
(* is << >>, truthiness is Len > 0, slicing is SubSeq and " ".join is      *)
(* concatenation.  Turkish letters are transliterated to ASCII.  A value   *)
(* of a JSON document / Python dict is tagged: None, Str(s), Num(n),       *)
(* List(l); a key that is not in the dict maps to Absent.             *)
(***************************************************************************)
EXTENDS Integers, Sequences, FiniteSets, TLC

VARIABLES
    pc,          \* "startup" | "idle" | "web" | "fallback" | "done"
    request,     \* the request being served (NoRequest when idle)
    response,    \* the reply of the endpoint (NoResponse until it returns)
    calls,       \* the external calls of this request, in call order, each
                 \* with what the collaborator gave and what came of it
    store        \* db.accommodations, documents in insertion order

vars == <<pc, request, response, calls, store>>

\* ------------------------------------------------------------------ values

None == [t |-> "none"]
Absent == [t |-> "absent"]
Str(s) == [t |-> "str", s |-> s]
Num(n) == [t |-> "int", n |-> n]
List(l) == [t |-> "list", l |-> l]

IsStr(v) == v.t = "str"
IsNum(v) == v.t = "int"
IsStrList(v) == v.t = "list" /\ \A i \in DOMAIN v.l : IsStr(v.l[i])

\* Python truthiness of a tagged value
Truthy(v) ==
    CASE v.t = "none" -> FALSE
      [] v.t = "absent" -> FALSE
      [] v.t = "str" -> Len(v.s) > 0
      [] v.t = "int" -> v.n # 0
      [] v.t = "list" -> Len(v.l) > 0
      [] OTHER -> TRUE

NoRequest == [op |-> "none"]
NoResponse == [kind |-> "none"]

\* ------------------------------------------------------------ ParsedFilters

\* class ParsedFilters: the field defaults
ParsedFiltersDefaults ==
    [city |-> None, district |-> None, price_min |-> None, price_max |-> None,
     guest_count |-> None, property_type |-> None, features |-> List(<< >>),
     check_in_date |-> None, check_out_date |-> None, raw_query |-> Str(<< >>)]

FilterKeys == {"city", "district", "price_min", "price_max", "guest_count",
               "property_type", "features", "check_in_date", "check_out_date"}

\* pydantic validation of one field of ParsedFilters
FieldValid(key, v) ==
    CASE key \in {"city", "district", "property_type", "check_in_date", "check_out_date"}
            -> v = None \/ IsStr(v)
      [] key \in {"price_min", "price_max", "guest_count"}
            -> v = None \/ IsNum(v)
      [] key = "features" -> IsStrList(v)
      [] key = "raw_query" -> IsStr(v)
      [] OTHER -> FALSE

ParsedFiltersValid(f) == \A k \in DOMAIN f : FieldValid(k, f[k])

\* ------------------------------------------------------- AIService.parse_query

\* dict.get(key) and dict.get(key, default)
DictGet(d, key) == IF d[key] = Absent THEN None ELSE d[key]
DictGetDefault(d, key, default) == IF d[key] = Absent THEN default ELSE d[key]

\* Lines 144-161: from the reply text to the decoded JSON value.  A reply is
\*   fence      "json" ('```json' in text), "plain" ('```' in text), "none"
\*   fenceMatch the fenced-object regex found a match
\*   payload    "object"    a {...} text that json.loads decodes to a dict
\*              "malformed" a {...} text that json.loads rejects
\*              "scalar"    valid JSON without braces (a list, a number, null)
\*              "prose"     no braces and not JSON
\*   data       the decoded dict when payload = "object"
\* The result is [ok |-> TRUE, dict |-> d] or [ok |-> FALSE] (an exception).
ExtractJson(reply) ==
    LET json_text_is_none == reply.fence \in {"json", "plain"} /\ ~reply.fenceMatch
        json_match == ~json_text_is_none /\ reply.payload \in {"object", "malformed"}
    IN  IF json_match
        THEN IF reply.payload = "object"
             THEN [ok |-> TRUE, dict |-> reply.data]
             ELSE [ok |-> FALSE]            \* json.JSONDecodeError
        ELSE [ok |-> FALSE]                 \* TypeError, JSONDecodeError, or
                                            \* AttributeError on .get of a non-dict

\* Lines 165-176: the constructor call
BuildFilters(parsed_data, query) ==
    [city |-> DictGet(parsed_data, "city"),
     district |-> DictGet(parsed_data, "district"),
     price_min |-> DictGet(parsed_data, "price_min"),
     price_max |-> DictGet(parsed_data, "price_max"),
     guest_count |-> DictGet(parsed_data, "guest_count"),
     property_type |-> DictGet(parsed_data, "property_type"),
     features |-> DictGetDefault(parsed_data, "features", List(<< >>)),
     check_in_date |-> DictGet(parsed_data, "check_in_date"),
     check_out_date |-> DictGet(parsed_data, "check_out_date"),
     raw_query |-> Str(query)]

\* the except branch without the query
FallbackFilters_NoRawQuery(query) == ParsedFiltersDefaults

\* Line 187: the except branch
FallbackFilters(query) == [ParsedFiltersDefaults EXCEPT !.raw_query = Str(query)]

\* AIService.parse_query: [raised |-> FALSE, filters |-> f]; every exception
\* of the try block ends in the except branch, which returns FallbackFilters.
AIService_parse_query(query, reply) ==
    IF reply.raises
    THEN [raised |-> FALSE, filters |-> FallbackFilters(query)]
    ELSE LET j == ExtractJson(reply)
         IN  IF ~j.ok
             THEN [raised |-> FALSE, filters |-> FallbackFilters(query)]
             ELSE LET f == BuildFilters(j.dict, query)
                  IN  IF ParsedFiltersValid(f)
                      THEN [raised |-> FALSE, filters |-> f]
                      ELSE [raised |-> FALSE, filters |-> FallbackFilters(query)]

\* The /api/parse endpoint: 200 with the filters, 500 if the service raised
parse_query(query, reply) ==
    LET r == AIService_parse_query(query, reply)
    IN  IF r.raised
        THEN [kind |-> "error", status |-> 500]
        ELSE [kind |-> "filters", filters |-> r.filters]

\* ------------------------------------------------------------------ inputs

Queries ==
    { <<"Antalya'da", "4", "kisilik", "villa", "havuzlu">>,
      <<"ucuz", "otel">>,
      << >> }

ReplyData ==
    [city : {Absent, None, Str(<<"Antalya">>), Num(7)},
     district : {Absent},
     price_min : {Absent},
     price_max : {Absent, Num(5000), Str(<<"bes", "bin">>)},
     guest_count : {Absent, None, Num(4), Num(0), Num(-1), Str(<<"dort">>)},
     property_type : {Absent, Str(<<"villa">>)},
     features : {Absent, None, List(<< Str(<<"havuzlu">>) >>)},
     check_in_date : {Absent, Str(<<"2", "Eylul">>)},
     check_out_date : {Absent}]

EmptyData == [k \in FilterKeys |-> Absent]

Replies ==
    { [raises |-> TRUE, fence |-> "none", fenceMatch |-> FALSE,
       payload |-> "prose", data |-> EmptyData] }
    \cup [raises : {FALSE}, fence : {"none"}, fenceMatch : {FALSE},
          payload : {"malformed", "scalar", "prose"}, data : {EmptyData}]
    \cup [raises : {FALSE}, fence : {"json", "plain"}, fenceMatch : {FALSE},
          payload : {"object", "prose"}, data : {EmptyData}]
    \cup [raises : {FALSE}, fence : {"json", "plain"}, fenceMatch : {TRUE},
          payload : {"object"}, data : ReplyData]
    \cup [raises : {FALSE}, fence : {"none"}, fenceMatch : {FALSE},
          payload : {"object"}, data : ReplyData]

\* ----------------------------------------------------------------- text

\* str.lower() on one token, and on a text
LowerTok(w) ==
    CASE w = "Villa" -> "villa"
      [] w = "Ada" -> "ada"
      [] w = "Otel" -> "otel"
      [] w = "Resort" -> "resort"
      [] w = "Palas" -> "palas"
      [] w = "Booking" -> "booking"
      [] w = "Haberler" -> "haberler"
      [] w = "Antalya" -> "antalya"
      [] w = "Bodrum" -> "bodrum"
      [] w = "Lara" -> "lara"
      [] w = "Yalikavak" -> "yalikavak"
      [] w = "Beyoglu" -> "beyoglu"
      [] w = "Istanbul" -> "i.stanbul"   \* U+0130 lowers to "i" + combining dot
      [] w = "TL" -> "tl"
      [] OTHER -> w

Lower(s) == [i \in DOMAIN s |-> LowerTok(s[i])]

\* "kw in text" for a one-token kw
Contains(s, kw) == \E i \in DOMAIN s : s[i] = kw

\* "pattern in text" for a text pattern: a contiguous run of tokens
ContainsSeq(s, pat) ==
    \E i \in 0..(Len(s) - Len(pat)) :
        \A j \in 1..Len(pat) : s[i + j] = pat[j]

\* s[:n]
Take(s, n) == SubSeq(s, 1, IF Len(s) < n THEN Len(s) ELSE n)

\* "x or ''" for an Optional[str]
OrEmpty(v) == IF Truthy(v) THEN v.s ELSE << >>

\* ------------------------------------------------------ WebSearchService.search

\* Lines 212 and 228: the texts of a list, joined
RECURSIVE JoinTexts(_)
JoinTexts(l) == IF l = << >> THEN << >> ELSE Head(l).s \o JoinTexts(Tail(l))

\* a check-out date used on its own
BuildSearchQuery_CheckOutAlone(filters) ==
    (IF Truthy(filters.city) THEN filters.city.s ELSE << >>)
    \o (IF Truthy(filters.district) THEN filters.district.s ELSE << >>)
    \o (IF Truthy(filters.property_type) THEN filters.property_type.s ELSE << >>)
    \o (IF Truthy(filters.features) THEN JoinTexts(Take(filters.features.l, 2)) ELSE << >>)
    \o (IF Truthy(filters.check_in_date) /\ Truthy(filters.check_out_date)
        THEN filters.check_in_date.s \o <<"-">> \o filters.check_out_date.s
        ELSE IF Truthy(filters.check_in_date) THEN filters.check_in_date.s
        ELSE IF Truthy(filters.check_out_date) THEN filters.check_out_date.s ELSE << >>)
    \o (IF Truthy(filters.guest_count)
        THEN <<ToString(filters.guest_count.n), "kisi">> ELSE << >>)
    \o <<"konaklama", "Turkey">>

\* Lines 198-228: the search query sent to Tavily
BuildSearchQuery(filters) ==
    (IF Truthy(filters.city) THEN filters.city.s ELSE << >>)
    \o (IF Truthy(filters.district) THEN filters.district.s ELSE << >>)
    \o (IF Truthy(filters.property_type) THEN filters.property_type.s ELSE << >>)
    \o (IF Truthy(filters.features) THEN JoinTexts(Take(filters.features.l, 2)) ELSE << >>)
    \o (IF Truthy(filters.check_in_date) /\ Truthy(filters.check_out_date)
        THEN filters.check_in_date.s \o <<"-">> \o filters.check_out_date.s
        ELSE IF Truthy(filters.check_in_date) THEN filters.check_in_date.s ELSE << >>)
    \o (IF Truthy(filters.guest_count)
        THEN <<ToString(filters.guest_count.n), "kisi">> ELSE << >>)
    \o <<"konaklama", "Turkey">>

\* Lines 260-262
Keywords == {"hotel", "otel", "villa", "apart", "resort", "konaklama",
             "tatil", "booking", "accommodation", "stay", "lodging",
             "pension", "pansiyon", "bungalov", "bungalow"}

\* Lines 277-292: the placeholder images
ImgVilla == Str(<<"https://images.unsplash.com/photo-1613490493576-7fde63acd811">>)
ImgBungalov == Str(<<"https://images.unsplash.com/photo-1510798831971-661eb04b3739">>)
ImgResort == Str(<<"https://images.unsplash.com/photo-1571896349842-33c89424de2d">>)
ImgApart == Str(<<"https://images.unsplash.com/photo-1522708323590-d24dbb6b0267">>)
ImgAntalya == Str(<<"https://images.unsplash.com/photo-1602002418082-a4443e081dd1">>)
ImgBodrum == Str(<<"https://images.unsplash.com/photo-1520250497591-112f2f40a3f4">>)
ImgIstanbul == Str(<<"https://images.unsplash.com/photo-1541432901042-2d8bd64b4a9b">>)
ImgDefault == Str(<<"https://images.unsplash.com/photo-1566073771259-6a8506099945">>)

\* no placeholder at all
FallbackImage_None(filters, title_lower) == None

FallbackImage(filters, title_lower) ==
    LET city_lower == Lower(OrEmpty(filters.city))
        prop_type == Lower(OrEmpty(filters.property_type))
    IN  CASE Contains(prop_type, "villa") \/ Contains(title_lower, "villa") -> ImgVilla
          [] Contains(prop_type, "bungalov") \/ Contains(title_lower, "bungalov") -> ImgBungalov
          [] Contains(prop_type, "resort") \/ Contains(title_lower, "resort") -> ImgResort
          [] Contains(prop_type, "apart") \/ Contains(title_lower, "apart") -> ImgApart
          [] Contains(city_lower, "antalya") \/ Contains(city_lower, "alanya") -> ImgAntalya
          [] Contains(city_lower, "bodrum") -> ImgBodrum
          [] Contains(city_lower, "istanbul") \/ Contains(OrEmpty(filters.city), "Istanbul")
                -> ImgIstanbul
          [] OTHER -> ImgDefault

\* Line 297: (\d+[.,]?\d*)\s*(TL|...|USD|EUR), first match in the content
NumberToks == {"0", "2", "1500", "8000"}
CurrencyToks == {"TL", "USD", "EUR"}

PriceAt(content, i) ==
    i < Len(content) /\ content[i] \in NumberToks /\ content[i + 1] \in CurrencyToks

ExtractPrice(content) ==
    IF \E i \in DOMAIN content : PriceAt(content, i)
    THEN LET i == CHOOSE k \in DOMAIN content :
                     PriceAt(content, k) /\ \A m \in 1..(k - 1) : ~PriceAt(content, m)
         IN  Str(<<content[i], content[i + 1]>>)
    ELSE None

DescLimit == 250
DefaultDescription == <<"Konaklama", "detaylari", "icin", "tiklayin">>

\* Lines 249-315: one iteration of the loop.  [ok |-> FALSE] is an exception
\* (.lower() of a value that is not a str); keep says whether the item passed
\* the keyword filter.
ProcessItem(item, filters) ==
    LET title == DictGetDefault(item, "title", Str(<< >>))
        content == DictGetDefault(item, "content", Str(<< >>))
        url == DictGetDefault(item, "url", Str(<< >>))
    IN  IF ~IsStr(title) \/ ~IsStr(content)
        THEN [ok |-> FALSE]
        ELSE LET title_lower == Lower(title.s)
                 content_lower == Lower(content.s)
                 is_accommodation ==
                     \E kw \in Keywords :
                         Contains(title_lower, kw) \/ Contains(content_lower, kw)
                 image_url == IF Truthy(item.image) THEN item.image
                              ELSE FallbackImage(filters, title_lower)
             IN  [ok |-> TRUE, keep |-> is_accommodation,
                  result |->
                     [title |-> title,
                      description |-> IF Truthy(content)
                                      THEN Str(Take(content.s, DescLimit))
                                      ELSE Str(DefaultDescription),
                      url |-> url,
                      image |-> image_url,
                      price |-> ExtractPrice(content.s),
                      city |-> Str(OrEmpty(filters.city)),
                      district |-> Str(OrEmpty(filters.district)),
                      features |-> IF Truthy(filters.features)
                                   THEN filters.features ELSE List(<< >>)]]

\* Lines 243-315: the loop over response['results']
RECURSIVE ProcessItems(_, _)
ProcessItems(items, filters) ==
    IF items = << >>
    THEN [ok |-> TRUE, results |-> << >>]
    ELSE LET r == ProcessItem(Head(items), filters)
         IN  IF ~r.ok
             THEN [ok |-> FALSE]
             ELSE LET rest == ProcessItems(Tail(items), filters)
                  IN  IF ~rest.ok
                      THEN [ok |-> FALSE]
                      ELSE [ok |-> TRUE,
                            results |-> IF r.keep THEN <<r.result>> \o rest.results
                                        ELSE rest.results]

\* WebSearchService.search without the except branch
WebSearchService_search_Propagates(filters, tavily) ==
    IF tavily.kind = "raises"
    THEN [raised |-> TRUE, results |-> << >>]
    ELSE IF tavily.kind # "results"
    THEN [raised |-> FALSE, results |-> << >>]
    ELSE LET r == ProcessItems(tavily.items, filters)
         IN  IF r.ok
             THEN [raised |-> FALSE, results |-> r.results]
             ELSE [raised |-> TRUE, results |-> << >>]

\* WebSearchService.search.  tavily is the outcome of tavily_client.search:
\*   "raises" | "none" (a falsy response) | "noresults" (no 'results' key) |
\*   "results" with items.  Every exception ends in the except branch: [].
WebSearchService_search(filters, tavily) ==
    IF tavily.kind = "raises"
    THEN [raised |-> FALSE, results |-> << >>]          \* lines 322-324
    ELSE IF tavily.kind # "results"
    THEN [raised |-> FALSE, results |-> << >>]
    ELSE LET r == ProcessItems(tavily.items, filters)
         IN  IF r.ok
             THEN [raised |-> FALSE, results |-> r.results]
             ELSE [raised |-> FALSE, results |-> << >>]

\* --------------------------------------------------- FallbackDataService.search

\* {'$regex': pattern, '$options': 'i'} against a document field
RegexMatch(field, pattern) ==
    IsStr(field) /\ ContainsSeq(Lower(field.s), Lower(pattern.s))

\* Lines 331-343: the query, as the predicate it selects documents with
MatchesQuery(doc, filters) ==
    /\ Truthy(filters.city) => RegexMatch(doc.city, filters.city)
    /\ Truthy(filters.district) => RegexMatch(doc.district, filters.district)
    /\ Truthy(filters.property_type) => RegexMatch(doc.property_type, filters.property_type)
    /\ Truthy(filters.features) =>
          \E i \in DOMAIN doc.features.l, j \in DOMAIN filters.features.l :
              doc.features.l[i] = filters.features.l[j]

RECURSIVE Find(_, _)
Find(docs, filters) ==
    IF docs = << >> THEN << >>
    ELSE IF MatchesQuery(Head(docs), filters)
         THEN <<Head(docs)>> \o Find(Tail(docs), filters)
         ELSE Find(Tail(docs), filters)

FindLimit == 50

\* FallbackDataService.search without the except branch
FallbackDataService_search_Propagates(filters, docs, db_ok) ==
    IF ~db_ok
    THEN [raised |-> TRUE, results |-> << >>]
    ELSE [raised |-> FALSE, results |-> Take(Find(docs, filters), FindLimit)]

\* FallbackDataService.search.  db_ok is whether the find on the collection
\* succeeds; every exception ends in the except branch: [].
FallbackDataService_search(filters, docs, db_ok) ==
    IF ~db_ok
    THEN [raised |-> FALSE, results |-> << >>]
    ELSE [raised |-> FALSE, results |-> Take(Find(docs, filters), FindLimit)]

\* ----------------------------------------------------------- search endpoint

\* an exception is raised inside the try block of WebSearchService.search
TavilyFails(filters, tavily) ==
    \/ tavily.kind = "raises"
    \/ tavily.kind = "results" /\ ~ProcessItems(tavily.items, filters).ok

\* the local data asked first
FirstProvider_Fallback == "fallback"

\* Line 391: the provider search_accommodations calls first
FirstProvider == "web"

\* the web results never taken as the answer
UseWebResults_Never(web_results) == FALSE

\* Line 396: "if web_results and len(web_results) > 0"
UseWebResults(web_results) == Len(web_results) > 0

\* the web search asked again
ProviderAfterWeb_Retry == "web"

\* Lines 404-406: the provider called when the web search gave nothing
ProviderAfterWeb == "fallback"

\* every response labelled as a web response
SearchResponse_AlwaysWeb(results, source) ==
    [kind |-> "search", results |-> results, count |-> Len(results), source |-> "web"]

\* Lines 398-402 and 411-415
SearchResponse(results, source) ==
    [kind |-> "search", results |-> results, count |-> Len(results), source |-> source]

\* Lines 417-419
SearchError == [kind |-> "error", status |-> 500]

\* what a provider call came to, as search_accommodations sees it
CallOutcome(r, failed) ==
    IF r.raised THEN "propagated"
    ELSE IF failed THEN "failed"
    ELSE IF Len(r.results) > 0 THEN "results" ELSE "empty"

\* ------------------------------------------------------------ search inputs

SearchFilters ==
    { [ParsedFiltersDefaults EXCEPT !.raw_query = Str(<<"ucuz", "otel">>)],
      [ParsedFiltersDefaults EXCEPT !.city = Str(<<"bodrum">>),
                                    !.guest_count = Num(0)],
      [ParsedFiltersDefaults EXCEPT !.city = Str(<<"Istanbul">>),
                                    !.district = Str(<<"Beyoglu">>)] }
    \cup
    { [ParsedFiltersDefaults EXCEPT !.city = Str(<<"Antalya">>),
                                    !.property_type = pt,
                                    !.features = List(<< Str(<<"havuzlu">>) >>),
                                    !.guest_count = Num(4),
                                    !.check_in_date = ci,
                                    !.check_out_date = co] :
        pt \in {None, Str(<<"resort">>)},
        ci \in {None, Str(<<"2", "Eylul">>)},
        co \in {None, Str(<<"5", "Eylul">>)} }

UrlAda == <<"https://a.com/villa-ada">>
UrlPalas == <<"https://b.com/palas">>

TavilyItems ==
    { [title |-> Str(<<"Villa", "Ada">>),
       content |-> Str(<<"luks", "villa", "1500", "TL">>),
       url |-> Str(UrlAda), image |-> Str(<<"https://a.com/ada.jpg">>)],
      [title |-> Str(<<"Villa", "Ada", "Booking">>),
       content |-> Str(<<"konaklama", "firsati">>),
       url |-> Str(UrlAda \o <<"?", "ref=1">>), image |-> Absent],
      [title |-> Str(<<"Haberler">>),
       content |-> Str(<<"son", "dakika", "2", "USD">>),
       url |-> Str(<<"https://c.com/news">>), image |-> Absent],
      [title |-> Str(<<"Resort", "Palas">>),
       content |-> Str(<<"resort", "0", "TL">>),
       url |-> Absent, image |-> None],
      [title |-> None,
       content |-> Str(<<"otel">>),
       url |-> Str(UrlPalas), image |-> Absent],
      [title |-> Str(<<"Otel", "Palas">>),
       content |-> Absent,
       url |-> Str(UrlPalas \o <<"#", "rooms">>), image |-> Str(<< >>)] }

MaxItems == 2

RECURSIVE SeqsUpTo(_, _)
SeqsUpTo(S, n) ==
    IF n = 0 THEN {<< >>}
    ELSE LET shorter == SeqsUpTo(S, n - 1)
         IN  shorter \cup {Append(s, x) : s \in shorter, x \in S}

TavilyOutcomes ==
    {[kind |-> "raises"], [kind |-> "none"], [kind |-> "noresults"]}
    \cup {[kind |-> "results", items |-> items] : items \in SeqsUpTo(TavilyItems, MaxItems)}

\* ------------------------------------------------------------------ startup

\* Lines 479-552: three of the 51 sample documents
SampleData ==
    << [title |-> Str(<<"Pera", "Palace", "Hotel">>),
        description |-> Str(<<"Tarihi", "luks", "otel">>),
        city |-> Str(<<"Istanbul">>), district |-> Str(<<"Beyoglu">>),
        property_type |-> Str(<<"butik", "otel">>),
        price |-> Str(<<"3500", "TL/gece">>),
        features |-> List(<< Str(<<"WiFi">>), Str(<<"kahvalti", "dahil">>), Str(<<"spa">>) >>),
        image |-> Str(<<"https://images.unsplash.com/photo-1566073771259-6a8506099945">>),
        url |-> Str(<<"#">>)],
       [title |-> Str(<<"Denize", "Sifir", "Resort">>),
        description |-> Str(<<"Her", "sey", "dahil">>),
        city |-> Str(<<"Antalya">>), district |-> Str(<<"Lara">>),
        property_type |-> Str(<<"resort">>),
        price |-> Str(<<"4500", "TL/gece">>),
        features |-> List(<< Str(<<"denize", "sifir">>), Str(<<"havuzlu">>), Str(<<"spa">>) >>),
        image |-> Str(<<"https://images.unsplash.com/photo-1571896349842-33c89424de2d">>),
        url |-> Str(<<"#">>)],
       [title |-> Str(<<"Belek", "Golf", "Resort">>),
        description |-> Str(<<"Golf", "sahasi", "manzarali", "otel">>),
        city |-> Str(<<"Antalya">>), district |-> Str(<<"Belek">>),
        property_type |-> Str(<<"resort">>),
        price |-> Str(<<"5200", "TL/gece">>),
        features |-> List(<< Str(<<"havuzlu">>), Str(<<"spa">>), Str(<<"fitness">>) >>),
        image |-> Str(<<"https://images.unsplash.com/photo-1564501049412-61c2a3083791">>),
        url |-> Str(<<"#">>)] >>

\* Lines 556-557: the document as inserted, n the number of documents before it
NewDocument(acc_data, n) ==
    [title |-> acc_data.title, description |-> acc_data.description,
     city |-> acc_data.city, district |-> acc_data.district,
     property_type |-> acc_data.property_type, price |-> acc_data.price,
     features |-> acc_data.features, image |-> acc_data.image, url |-> acc_data.url,
     id |-> Str(<<"uuid", ToString(n + 1)>>),
     created_at |-> Str(<<"isoformat">>)]

RECURSIVE InsertAll(_, _)
InsertAll(docs, data) ==
    IF data = << >> THEN docs
    ELSE InsertAll(Append(docs, NewDocument(Head(data), Len(docs))), Tail(data))

\* startup_db without the test of the count
startup_db_NoCountCheck(docs, count_ok, inserted) ==
    IF ~count_ok
    THEN [raised |-> FALSE, docs |-> docs]
    ELSE [raised |-> FALSE,
          docs |-> InsertAll(docs, SubSeq(SampleData, 1, inserted))]

\* startup_db without the except branch
startup_db_Propagates(docs, count_ok, inserted) ==
    IF ~count_ok
    THEN [raised |-> TRUE, docs |-> docs]
    ELSE IF Len(docs) > 0
    THEN [raised |-> FALSE, docs |-> docs]
    ELSE [raised |-> inserted < Len(SampleData),
          docs |-> InsertAll(docs, SubSeq(SampleData, 1, inserted))]

\* startup_db.  count_ok: count_documents succeeds; inserted: the number of
\* insert_one calls that succeed before one raises (Len(SampleData) when none
\* does).  Every exception ends in the except branch, which only logs.
\* The result is the collection afterwards and whether startup_db raised.
startup_db(docs, count_ok, inserted) ==
    IF ~count_ok
    THEN [raised |-> FALSE, docs |-> docs]                       \* lines 562-563
    ELSE IF Len(docs) > 0
    THEN [raised |-> FALSE, docs |-> docs]                       \* lines 474-476
    ELSE [raised |-> FALSE,
          docs |-> InsertAll(docs, SubSeq(SampleData, 1, inserted))]

\* what the application start-up comes to
Started == [kind |-> "started"]
StartupError == [kind |-> "startup_error"]

\* ----------------------------------------------------------------- actions

Init ==
    /\ pc = "startup"
    /\ request = NoRequest
    /\ response = NoResponse
    /\ calls = << >>
    /\ store = << >>

\* @app.on_event("startup"): runs to completion before any request is served
Startup ==
    /\ pc = "startup"
    /\ \E count_ok \in BOOLEAN, inserted \in 0..Len(SampleData) :
          LET r == startup_db(store, count_ok, inserted)
          IN  /\ request' = [op |-> "startup", count_ok |-> count_ok,
                             count |-> Len(store), inserted |-> inserted]
              /\ store' = r.docs
              /\ response' = IF r.raised THEN StartupError ELSE Started
    /\ pc' = "done"
    /\ UNCHANGED calls

\* the process is restarted; the database outlives it
Restart ==
    /\ pc = "idle"
    /\ pc' = "startup"
    /\ UNCHANGED <<request, response, calls, store>>

\* POST /api/parse
Parse ==
    /\ pc = "idle"
    /\ \E query \in Queries, reply \in Replies :
          /\ request' = [op |-> "parse", query |-> query]
          /\ calls' = <<[provider |-> "chat", raw |-> reply]>>
          /\ response' = parse_query(query, reply)
    /\ pc' = "done"
    /\ UNCHANGED store

\* POST /api/search, lines 384-388: the request is accepted
SearchBegin ==
    /\ pc = "idle"
    /\ \E filters \in SearchFilters :
          request' = [op |-> "search", filters |-> filters]
    /\ pc' = FirstProvider
    /\ UNCHANGED <<response, calls, store>>

\* Lines 390-402: the web search, and the reply when it found something
SearchWeb ==
    /\ pc = "web"
    /\ \E tavily \in TavilyOutcomes :
          LET r == WebSearchService_search(request.filters, tavily)
          IN  /\ calls' = Append(calls,
                    [provider |-> "web",
                     query |-> BuildSearchQuery(request.filters),
                     raw |-> tavily,
                     outcome |-> CallOutcome(r, TavilyFails(request.filters, tavily)),
                     results |-> r.results])
              /\ IF r.raised
                 THEN response' = SearchError /\ pc' = "done"
                 ELSE IF UseWebResults(r.results)
                 THEN response' = SearchResponse(r.results, "web") /\ pc' = "done"
                 ELSE response' = response /\ pc' = ProviderAfterWeb
    /\ UNCHANGED <<request, store>>

\* the local data written back to the collection after the read
SearchFallback_SavesResults ==
    /\ pc = "fallback"
    /\ \E db_ok \in BOOLEAN :
          LET r == FallbackDataService_search(request.filters, store, db_ok)
          IN  /\ calls' = Append(calls,
                    [provider |-> "fallback",
                     raw |-> IF db_ok THEN [kind |-> "docs", docs |-> store]
                                      ELSE [kind |-> "raises"],
                     outcome |-> CallOutcome(r, ~db_ok),
                     results |-> r.results])
              /\ response' = IF r.raised THEN SearchError
                             ELSE SearchResponse(r.results, "fallback")
              /\ store' = r.results
    /\ pc' = "done"
    /\ UNCHANGED request

\* Lines 404-415: the local data, and the reply
SearchFallback ==
    /\ pc = "fallback"
    /\ \E db_ok \in BOOLEAN :
          LET r == FallbackDataService_search(request.filters, store, db_ok)
          IN  /\ calls' = Append(calls,
                    [provider |-> "fallback",
                     raw |-> IF db_ok THEN [kind |-> "docs", docs |-> store]
                                      ELSE [kind |-> "raises"],
                     outcome |-> CallOutcome(r, ~db_ok),
                     results |-> r.results])
              /\ response' = IF r.raised THEN SearchError
                             ELSE SearchResponse(r.results, "fallback")
    /\ pc' = "done"
    /\ UNCHANGED <<request, store>>

\* the client has its reply; the server is ready for the next request
Finish ==
    /\ pc = "done"
    /\ pc' = "idle"
    /\ request' = NoRequest
    /\ response' = NoResponse
    /\ calls' = << >>
    /\ UNCHANGED store

Next ==
    \/ Startup
    \/ Restart
    \/ Parse
    \/ SearchBegin
    \/ SearchWeb
    \/ SearchFallback
    \/ Finish

Spec == Init /\ [][Next]_vars

\* ------------------------------------------------------------------ claims

ParseDone == pc = "done" /\ request.op = "parse"
SearchDone == pc = "done" /\ request.op = "search"
ZeroOutcomes == {"empty", "failed"}

\* the model path of a parse request failed: the call raised, no JSON object
\* could be decoded, or the decoded fields did not validate
ModelPathFailed(query, reply) ==
    \/ reply.raises
    \/ ~ExtractJson(reply).ok
    \/ ~ParsedFiltersValid(BuildFilters(ExtractJson(reply).dict, query))

\* C1: whatever the text and whatever the model call does (a JSON reply, a
\* reply that is not JSON, fields that fail validation, an exception), parse
\* answers with filters whose raw_query is the input text, never an error.
C1_ParseKeepsRawQuery ==
    ParseDone =>
        /\ response.kind = "filters"
        /\ response.filters.raw_query = Str(request.query)

\* a parse of a non-empty text whose reply decoded but failed validation
C1_Witness ==
    /\ ParseDone
    /\ request.query # << >>
    /\ ~calls[1].raw.raises
    /\ ExtractJson(calls[1].raw).ok
    /\ ~ParsedFiltersValid(BuildFilters(calls[1].raw.data, request.query))
    /\ response.kind = "filters"
    /\ response.filters.raw_query = Str(request.query)

\* C2: the filters parse returns always have a guest_count that is a number
\* >= 1, and it is 2 when no guest count was extracted (the key is missing in
\* the reply, or the model path failed).
C2_GuestCountAtLeastOne ==
    ParseDone =>
        /\ response.kind = "filters"
        /\ IsNum(response.filters.guest_count)
        /\ response.filters.guest_count.n >= 1
        /\ (ModelPathFailed(request.query, calls[1].raw)
            \/ calls[1].raw.data.guest_count = Absent)
              => response.filters.guest_count = Num(2)

\* the text names a city, a "<number> kisilik" guest count, a property type
\* and an amenity
NamesAllFields(query) ==
    /\ \E i \in DOMAIN query : query[i] \in {"Antalya'da", "Antalya", "Bodrum'da"}
    /\ \E i \in 1..(Len(query) - 1) : query[i] = "4" /\ query[i + 1] = "kisilik"
    /\ Contains(query, "villa")
    /\ Contains(query, "havuzlu")

\* C3: when the model path fails, the filters are still extracted from the
\* text: a text naming a city, "4 kisilik", "villa" and "havuzlu" gives that
\* city, guest_count 4, property_type villa and the pool amenity in features.
C3_FallbackExtractsFields ==
    (ParseDone /\ ModelPathFailed(request.query, calls[1].raw)
        /\ NamesAllFields(request.query)) =>
        /\ response.kind = "filters"
        /\ IsStr(response.filters.city)
        /\ response.filters.guest_count = Num(4)
        /\ response.filters.property_type = Str(<<"villa">>)
        /\ \E i \in DOMAIN response.filters.features.l :
              response.filters.features.l[i] = Str(<<"havuzlu">>)

\* C4: search stops at the first provider with a result: a later provider is
\* called only after all earlier ones came back with nothing, and the results
\* of the response are the output of the one provider called last.
C4_ShortCircuit ==
    request.op = "search" =>
        /\ \A i \in DOMAIN calls : \A j \in 1..(i - 1) :
              calls[j].outcome \in ZeroOutcomes
        /\ pc = "fallback" =>
              \A j \in DOMAIN calls : calls[j].outcome \in ZeroOutcomes
        /\ response.kind = "search" =>
              /\ calls # << >>
              /\ response.results = calls[Len(calls)].results
              /\ response.source = calls[Len(calls)].provider

\* the web search answered while the local store had matching documents
C4_Witness ==
    /\ SearchDone
    /\ Len(calls) = 1
    /\ calls[1].outcome = "results"
    /\ Find(store, request.filters) # << >>
    /\ response.results = calls[1].results

C6_ProviderFailureIsEmpty ==
    request.op = "search" =>
        /\ response.kind # "error"
        /\ \A i \in DOMAIN calls :
              calls[i].outcome = "failed" =>
                 /\ calls[i].results = << >>
                 /\ calls[i].provider = "web" =>
                       \/ pc = "fallback"
                       \/ Len(calls) > i /\ calls[i + 1].provider = "fallback"
                 /\ (calls[i].provider = "fallback" /\ pc = "done") =>
                       response = SearchResponse(<< >>, "fallback")

\* the web search raised on its second item, after the first was accepted,
\* and the local store answered
C6_Witness ==
    /\ SearchDone
    /\ Len(calls) = 2
    /\ calls[1].raw.kind = "results"
    /\ Len(calls[1].raw.items) = 2
    /\ ProcessItem(calls[1].raw.items[1], request.filters).ok
    /\ ProcessItem(calls[1].raw.items[1], request.filters).keep
    /\ ~ProcessItem(calls[1].raw.items[2], request.filters).ok
    /\ calls[1].outcome = "failed"
    /\ response.kind = "search"
    /\ response.count > 0

\* C7: when every provider has nothing or fails, search answers normally with
\* no results, count 0 and the label of the last provider tried.
C7_AllEmptyIsNormalResponse ==
    (SearchDone /\ \A i \in DOMAIN calls : calls[i].outcome # "results") =>
        /\ calls # << >>
        /\ response =
              [kind |-> "search", results |-> << >>, count |-> 0,
               source |-> calls[Len(calls)].provider]
        /\ response.source = "fallback"

\* the web search had nothing and the read of the seeded store failed
C7_Witness ==
    /\ SearchDone
    /\ Len(calls) = 2
    /\ calls[1].outcome = "empty"
    /\ calls[2].outcome = "failed"
    /\ store # << >>
    /\ response.kind = "search"
    /\ response.count = 0

\* the url without its query string and fragment
RECURSIVE StripUrl(_)
StripUrl(url) ==
    IF url = << >> \/ Head(url) \in {"?", "#"} THEN << >>
    ELSE <<Head(url)>> \o StripUrl(Tail(url))

DedupKey(result) == IF IsStr(result.url) THEN StripUrl(result.url.s) ELSE << >>

\* C8: no two results of a response have the same deduplication key.
C8_NoDuplicateKeys ==
    response.kind = "search" =>
        \A i, j \in DOMAIN response.results :
            i # j => DedupKey(response.results[i]) # DedupKey(response.results[j])

\* C9: every result of a response has a non-empty url, "#" when the
\* provider item has none.
C9_UrlNeverEmpty ==
    response.kind = "search" =>
        \A i \in DOMAIN response.results :
            /\ IsStr(response.results[i].url)
            /\ response.results[i].url.s # << >>

PositiveAmounts == {"2", "1500", "8000", "3500", "4500", "5200"}

\* C10: every result of a response has a price: a positive amount followed
\* by a currency label.
C10_PriceAlwaysPositive ==
    response.kind = "search" =>
        \A i \in DOMAIN response.results :
            /\ IsStr(response.results[i].price)
            /\ Len(response.results[i].price.s) = 2
            /\ response.results[i].price.s[1] \in PositiveAmounts

\* an item whose title and content are texts and that names an accommodation
WellFormedAccommodation(item, filters) ==
    /\ IsStr(DictGetDefault(item, "title", Str(<< >>)))
    /\ IsStr(DictGetDefault(item, "content", Str(<< >>)))
    /\ ProcessItem(item, filters).keep

\* C11: an item with a missing or null title, content, url or image raises
\* nothing and costs no other item its place: the call does not fail, and
\* every well-formed accommodation item of the same response has its result.
C11_MalformedItemsDefaulted ==
    \A i \in DOMAIN calls :
        (calls[i].provider = "web" /\ calls[i].raw.kind = "results") =>
            /\ calls[i].outcome # "failed"
            /\ Len(calls[i].results) >=
                  Cardinality({k \in DOMAIN calls[i].raw.items :
                      WellFormedAccommodation(calls[i].raw.items[k], request.filters)})

\* C12: within one request no provider is called twice: a provider that
\* failed or had nothing is not asked again.
C12_EachProviderOnce ==
    request.op = "search" =>
        /\ Len(calls) <= 2
        /\ \A i, j \in DOMAIN calls :
              i # j => calls[i].provider # calls[j].provider

\* the web search raised, the local store was asked once and had nothing
C12_Witness ==
    /\ SearchDone
    /\ Len(calls) = 2
    /\ calls[1].provider = "web"
    /\ calls[1].raw.kind = "raises"
    /\ calls[1].outcome = "failed"
    /\ calls[2].provider = "fallback"
    /\ calls[2].outcome = "empty"

\* the items of a response that pass the keyword filter, in order
RECURSIVE KeptItems(_, _)
KeptItems(items, filters) ==
    IF items = << >> THEN << >>
    ELSE IF ProcessItem(Head(items), filters).keep
         THEN <<Head(items)>> \o KeptItems(Tail(items), filters)
         ELSE KeptItems(Tail(items), filters)

Placeholders == {ImgVilla, ImgBungalov, ImgResort, ImgApart,
                 ImgAntalya, ImgBodrum, ImgIstanbul, ImgDefault}

\* C13: every result of the web search has a non-empty image: the item's own
\* image when it has a non-empty one, otherwise one of the placeholders, the
\* same one for the same filters and title (the villa one for a villa title).
C13_ImageAlwaysSet ==
    \A i \in DOMAIN calls :
        (calls[i].provider = "web" /\ calls[i].outcome = "results") =>
            LET kept == KeptItems(calls[i].raw.items, request.filters)
                res == calls[i].results
            IN  /\ Len(kept) = Len(res)
                /\ \A k \in DOMAIN res :
                      /\ IsStr(res[k].image)
                      /\ res[k].image.s # << >>
                      /\ Truthy(kept[k].image) => res[k].image = kept[k].image
                      /\ ~Truthy(kept[k].image) =>
                            /\ res[k].image \in Placeholders
                            /\ Contains(res[k].title.s, "Villa") => res[k].image = ImgVilla
                            /\ \A m \in DOMAIN res :
                                  (~Truthy(kept[m].image) /\ res[m].title = res[k].title)
                                      => res[m].image = res[k].image

\* a web answer with one result carrying the item's image and one a placeholder
C13_Witness ==
    /\ SearchDone
    /\ Len(calls) = 1
    /\ calls[1].outcome = "results"
    /\ Len(calls[1].results) = 2
    /\ Truthy(calls[1].raw.items[1].image)
    /\ calls[1].results[1].image = calls[1].raw.items[1].image
    /\ ~Truthy(calls[1].raw.items[2].image)
    /\ calls[1].results[2].image \in Placeholders

\* ------------------------------------------------------------ DeepLinkRewriter
\* The rewriter is specified in section 4.3 of the design; server.py has no
\* code for it.  A url is the token sequence scheme, domain, path and, after
\* a "?" or "#" token, the query string or fragment.

Date(y, m, d) == [t |-> "date", y |-> y, m |-> m, d |-> d]

\* the table of known booking sites, in match order: the domain, the date
\* format and the names of the query parameters
BookingSites ==
    << [domain |-> "booking.com", format |-> "iso",
        check_in |-> "checkin", check_out |-> "checkout", guests |-> "group_adults"],
       [domain |-> "etstur.com", format |-> "dotted",
        check_in |-> "giris", check_out |-> "cikis", guests |-> "yetiskin"] >>

FormatDate(date, format) ==
    IF format = "iso"
    THEN <<date.y, "-", date.m, "-", date.d>>
    ELSE <<date.d, ".", date.m, ".", date.y>>

SiteQuery(site, check_in, check_out, guest_count) ==
    <<site.check_in, "=">> \o FormatDate(check_in, site.format)
    \o <<"&", site.check_out, "=">> \o FormatDate(check_out, site.format)
    \o <<"&", site.guests, "=", ToString(guest_count)>>

\* the sites whose domain occurs in the base url
MatchingSites(base_url) ==
    {k \in DOMAIN BookingSites : Contains(base_url, BookingSites[k].domain)}

\* the stripped url returned when a date is missing
rewrite_ReturnsBase(url, check_in, check_out, guest_count) ==
    LET base_url == StripUrl(url)
    IN  IF check_in = None \/ check_out = None
        THEN base_url
        ELSE IF MatchingSites(base_url) = {}
        THEN url
        ELSE LET k == CHOOSE n \in MatchingSites(base_url) :
                          \A m \in MatchingSites(base_url) : n <= m
             IN  base_url \o <<"?">>
                     \o SiteQuery(BookingSites[k], check_in, check_out, guest_count)

\* rewrite(url, check_in, check_out, guest_count)
rewrite(url, check_in, check_out, guest_count) ==
    LET base_url == StripUrl(url)
    IN  IF check_in = None \/ check_out = None
        THEN url
        ELSE IF MatchingSites(base_url) = {}
        THEN url
        ELSE LET k == CHOOSE n \in MatchingSites(base_url) :
                          \A m \in MatchingSites(base_url) : n <= m
             IN  base_url \o <<"?">>
                     \o SiteQuery(BookingSites[k], check_in, check_out, guest_count)

RewriteUrls ==
    { <<"https://", "booking.com", "/hotel/ada">>,
      <<"https://", "booking.com", "/hotel/ada", "?", "aid=7">>,
      <<"https://", "etstur.com", "/palas", "#", "odalar">>,
      <<"https://", "etstur.com", "/palas", "?", "ref=1", "#", "odalar">>,
      <<"https://", "a.com", "/villa-ada", "?", "ref=1">>,
      <<"https://", "a.com", "/villa-ada">>,
      <<"#">> }

RewriteDates == {None, Date("2025", "09", "02"), Date("2025", "09", "05")}

MaxGuests == 4

\* one call of rewrite
Rewrite ==
    /\ pc = "idle"
    /\ \E url \in RewriteUrls, check_in, check_out \in RewriteDates,
          guest_count \in 1..MaxGuests :
          /\ request' = [op |-> "rewrite", url |-> url, check_in |-> check_in,
                         check_out |-> check_out, guest_count |-> guest_count]
          /\ response' = [kind |-> "url",
                          url |-> rewrite(url, check_in, check_out, guest_count)]
    /\ pc' = "done"
    /\ UNCHANGED <<calls, store>>

InitPure ==
    /\ pc = "idle"
    /\ request = NoRequest
    /\ response = NoResponse
    /\ calls = << >>
    /\ store = << >>

NextRewrite == Rewrite \/ Finish

SpecRewrite == InitPure /\ [][NextRewrite]_vars

\* C14: rewrite returns the url it was given, unchanged, whenever check_in or
\* check_out is absent, whatever the url.
C14_RewriteNeedsBothDates ==
    (pc = "done" /\ request.op = "rewrite"
        /\ (request.check_in = None \/ request.check_out = None)) =>
        response.url = request.url

\* a url of a known site with a query string, rewritten with one date missing
C14_Witness ==
    /\ pc = "done"
    /\ request.op = "rewrite"
    /\ request.url = <<"https://", "booking.com", "/hotel/ada", "?", "aid=7">>
    /\ request.check_in # None
    /\ request.check_out = None
    /\ response.url = request.url

\* -------------------------------------------------------------- PriceEstimator
\* The estimator is specified in section 4.4 of the design; server.py has no
\* code for it.  The design fixes the order of the base prices and the three
\* seasonal multipliers; the amounts below stand in for the ones it leaves open.

BasePrice ==
    [guesthouse |-> 800, apartment |-> 1200, hotel |-> 1500, boutique_hotel |-> 2000,
     bungalow |-> 2500, resort |-> 3500, villa |-> 5000]

PropertyTypes == DOMAIN BasePrice

GuestSurcharge == 300
AmenitySurcharge == [pool |-> 500, sea_view |-> 400, spa |-> 300, jacuzzi |-> 250]
FloorPrice == 600
RankDecayPercent == 5

HighSeason == {6, 7, 8}
LowSeason == {11, 12, 1, 2}

\* the seasonal multiplier, in tenths
SeasonTenths(month) ==
    IF month \in HighSeason THEN 13
    ELSE IF month \in LowSeason THEN 8 ELSE 11

RECURSIVE SumSurcharges(_)
SumSurcharges(features) ==
    IF features = {} THEN 0
    ELSE LET f == CHOOSE x \in features : TRUE
         IN  (IF f \in DOMAIN AmenitySurcharge THEN AmenitySurcharge[f] ELSE 0)
                 + SumSurcharges(features \ {f})

Max(a, b) == IF a >= b THEN a ELSE b

\* the price before the rank decay
SeasonalPrice(property_type, guest_count, features, month) ==
    LET base == BasePrice[property_type]
        guests == IF guest_count > 2 THEN (guest_count - 2) * GuestSurcharge ELSE 0
    IN  ((base + guests + SumSurcharges(features)) * SeasonTenths(month)) \div 10

Decayed(price, rank) == (price * (100 - RankDecayPercent * rank)) \div 100

\* the floor applied before the decay instead of after it
estimate_FloorBeforeDecay(property_type, guest_count, features, month, rank) ==
    Decayed(Max(FloorPrice,
                SeasonalPrice(property_type, guest_count, features, month)), rank)

\* estimate(property_type, guest_count, features, month), for the result at
\* position rank of a ranked list (rank 0: no decay)
estimate(property_type, guest_count, features, month, rank) ==
    Max(FloorPrice,
        Decayed(SeasonalPrice(property_type, guest_count, features, month), rank))

EstimateFeatures == {{}, {"pool"}, {"pool", "sea_view"}, {"wifi", "jacuzzi"}}
Months == 1..12
MaxRank == 3

\* one call of estimate
Estimate ==
    /\ pc = "idle"
    /\ \E property_type \in PropertyTypes, guest_count \in 1..MaxGuests,
          features \in EstimateFeatures, month \in Months, rank \in 0..MaxRank :
          /\ request' = [op |-> "estimate", property_type |-> property_type,
                         guest_count |-> guest_count, features |-> features,
                         month |-> month, rank |-> rank]
          /\ response' = [kind |-> "price",
                          price |-> estimate(property_type, guest_count,
                                             features, month, rank)]
    /\ pc' = "done"
    /\ UNCHANGED <<calls, store>>

NextEstimate == Estimate \/ Finish

SpecEstimate == InitPure /\ [][NextEstimate]_vars

\* C15: with the other inputs fixed, estimate for fewer guests is never more
\* than for more guests, and the result is never below the floor price, the
\* rank decay included.
C15_EstimateMonotoneAndFloored ==
    (pc = "done" /\ request.op = "estimate") =>
        /\ response.price >= FloorPrice
        /\ \A fewer \in 1..request.guest_count :
              estimate(request.property_type, fewer, request.features,
                       request.month, request.rank) <= response.price

\* a decayed price under the floor, for a party of two
C15_Witness ==
    /\ pc = "done"
    /\ request.op = "estimate"
    /\ request.guest_count = 2
    /\ request.rank > 0
    /\ Decayed(SeasonalPrice(request.property_type, request.guest_count,
                             request.features, request.month), request.rank)
          < FloorPrice
    /\ response.price = FloorPrice

\* C16: a check-out date without a check-in date is as good as absent: the
\* web-search query then has no date term and is the query of the same
\* filters without dates; a check-in date alone is in the query by itself,
\* and both dates are in it as the range "<in> - <out>".
C16_CheckOutAloneIgnored ==
    \A i \in DOMAIN calls :
        calls[i].provider = "web" =>
            LET q == calls[i].query
                f == request.filters
            IN  /\ ~Truthy(f.check_in_date) =>
                      /\ ~Contains(q, "-")
                      /\ ~Contains(q, "Eylul")
                      /\ q = BuildSearchQuery([f EXCEPT !.check_out_date = None])
                /\ (Truthy(f.check_in_date) /\ ~Truthy(f.check_out_date)) =>
                      /\ ContainsSeq(q, f.check_in_date.s)
                      /\ ~Contains(q, "-")
                /\ (Truthy(f.check_in_date) /\ Truthy(f.check_out_date)) =>
                      ContainsSeq(q, f.check_in_date.s \o <<"-">> \o f.check_out_date.s)

\* a web search for filters with a check-out date only
C16_Witness ==
    /\ request.op = "search"
    /\ Len(calls) >= 1
    /\ calls[1].provider = "web"
    /\ request.filters.check_in_date = None
    /\ Truthy(request.filters.check_out_date)
    /\ ~Contains(calls[1].query, "Eylul")

\* C17: in every response count is the number of results, and source is
\* "web" exactly when the web search returned at least one result, and
\* "fallback" otherwise.
C17_CountAndSource ==
    response.kind = "search" =>
        /\ response.count = Len(response.results)
        /\ response.source \in {"web", "fallback"}
        /\ calls # << >>
        /\ calls[1].provider = "web"
        /\ response.source = "web" <=> Len(calls[1].results) > 0

\* the web search raised and the store answered with two documents
C17_Witness ==
    /\ SearchDone
    /\ calls[1].raw.kind = "raises"
    /\ response.kind = "search"
    /\ response.source = "fallback"
    /\ response.count = 2
    /\ Len(response.results) = 2

SeededStore == InsertAll(<< >>, SampleData)

NoDuplicateTitles(docs) ==
    \A i, j \in DOMAIN docs : i # j => docs[i].title # docs[j].title

\* C19: a startup run inserts sample documents only into an empty store, a
\* run that finds a document inserts nothing, and so no sample document is in
\* the store twice, however many startup runs there are.
C19_SeededOnce ==
    [][/\ NoDuplicateTitles(store')
       /\ (pc = "startup" /\ store # << >>) => store' = store
       /\ store' # store => (pc = "startup" /\ store = << >>)]_vars

\* a startup run that found the whole sample in the store
C19_Witness ==
    /\ pc = "done"
    /\ request.op = "startup"
    /\ request.count_ok
    /\ request.count = Len(SampleData)
    /\ store = SeededStore
    /\ NoDuplicateTitles(store)

\* C20: a startup run never raises: when the count fails nothing changes,
\* when an insert fails the documents inserted before it stay, and a later
\* run that finds the store non-empty inserts none of the remaining ones.
C20_StartupNeverRaises ==
    [][pc = "startup" =>
          /\ pc' = "done"
          /\ response' = Started
          /\ ~request'.count_ok => store' = store
          /\ (request'.count_ok /\ store = << >>) =>
                /\ Len(store') = request'.inserted
                /\ \A k \in DOMAIN store' : store'[k].title = SampleData[k].title
          /\ store # << >> => store' = store]_vars

\* a later run that found a partly seeded store and left it as it was
C20_Witness ==
    /\ pc = "done"
    /\ request.op = "startup"
    /\ request.count_ok
    /\ request.count > 0
    /\ request.count < Len(SampleData)
    /\ request.inserted = Len(SampleData)
    /\ Len(store) = request.count
    /\ response = Started

====
